---- MODULE Spec2Model ----
(***************************************************************************)
(* Model of the wombadilo-games server core: the game controller           *)
(* (makeMove, offerDraw, respondToDrawOffer, resign, sendGameInvite,       *)
(* acceptGameInvite, declineGameInvite) over the Game collection, and the  *)
(* socket.io presence gateway (userSocketMap, connection / disconnect).    *)
(*                                                                         *)
(* Every controller is an async function: it awaits the load (findById),   *)
(* runs synchronously up to the next await (the save or delete), and after *)
(* that await emits its notification and answers.  A request therefore     *)
(* takes two steps, Load and Save, and requests of different slots         *)
(* interleave between them.  Socket handlers are synchronous callbacks and *)
(* are single steps.                                                       *)
(***************************************************************************)
EXTENDS Integers, Sequences, FiniteSets, TLC

\* ------------------------------------------------------------------ bounds
MaxReq == 2
MaxRequests == 5
MaxPly == 2
MaxSock == 3

\* --------------------------------------------------------------- constants
Users == {"u1", "u2", "u3"}
NoUser == "none"
Inviters == {"u1"}
Opponents == {"u2", "u1"}
ReqIds == 1..MaxReq
SockIds == 1..MaxSock
NoSock == 0

\* the from/to pairs a request may carry: two that the rules engine may
\* accept and one it always rejects
MoveInputs == {"a", "b", "x"}
NoArg == "-"

\* the id of the game the model follows
TheGame == "g1"

\* gameDoc is the stored document of the one game id the model follows (games do
\* not interact: every controller reads and writes the document of one id);
\* created says that the id has been given out.
\* issued counts the requests received.  listed is the list of games in the
\* last answer (empty unless getGames gave it); relayed is the last typing or
\* stopTyping signal the gateway passed on.
VARIABLES gameDoc, created, reqs, last, lastMover, issued, listed,
          sockets, userSocketMap, onlineUsers, relayed

vars == <<gameDoc, created, reqs, last, lastMover, issued, listed,
          sockets, userSocketMap, onlineUsers, relayed>>
gameVars == <<gameDoc, created, reqs, last, lastMover, issued, listed>>
presenceVars == <<sockets, userSocketMap, onlineUsers, relayed>>

\* ------------------------------------------------------------ rules engine
\* chess.js as the controller uses it.  A position (the FEN string) is the
\* sequence of the moves played: a FEN carries the move counters, so it never
\* repeats, and the fifty-move rule ends every game (MaxPly).
StartPosition == <<>>

EndsWith(pos, a, b) ==
    /\ Len(pos) >= 2
    /\ pos[Len(pos) - 1] = a
    /\ pos[Len(pos)] = b

isCheckmate(pos) == EndsWith(pos, "a", "a")

isGameOver(pos) ==
    \/ isCheckmate(pos)
    \/ EndsWith(pos, "b", "b")
    \/ Len(pos) >= MaxPly

\* chess.move({from, to}) throws unless the move is legal in the position
MoveThrows(pos, m) == isGameOver(pos) \/ m \notin {"a", "b"}

fen(pos, m) == Append(pos, m)

\* -------------------------------------------------------------- Game model
\* the document a Game.findById of a missing id resolves to (null)
NoGame ==
    [players |-> <<>>, status |-> "absent", invitedBy |-> NoUser,
     turn |-> NoUser, currentPosition |-> StartPosition, winner |-> NoUser,
     result |-> "none", drawOffer |-> NoUser]

\* the fields the Game schema fills in for new Game({players, status, invitedBy})
SchemaDefaults ==
    [turn |-> NoUser, currentPosition |-> StartPosition, winner |-> NoUser,
     result |-> "none", drawOffer |-> NoUser]

NewGame(userId, opponentId) ==
    [players |-> <<userId, opponentId>>, status |-> "invited",
     invitedBy |-> userId, turn |-> SchemaDefaults.turn,
     currentPosition |-> SchemaDefaults.currentPosition,
     winner |-> SchemaDefaults.winner, result |-> SchemaDefaults.result,
     drawOffer |-> SchemaDefaults.drawOffer]

Range(s) == {s[i] : i \in DOMAIN s}

\* game.players.some(player => player._id.toString() === userId.toString())
isParticipant(game, userId) == userId \in Range(game.players)

\* game.players.find(playerId => playerId.toString() !== userId.toString())
OtherPlayer(game, userId) ==
    IF \E i \in DOMAIN game.players : game.players[i] # userId
    THEN game.players[CHOOSE i \in DOMAIN game.players :
            /\ game.players[i] # userId
            /\ \A j \in DOMAIN game.players :
                   game.players[j] # userId => i <= j]
    ELSE NoUser

Terminal == {"completed", "drawn", "resigned"}

\* ------------------------------------------------------- controller bodies
\* What a controller does between the load and its next await: the answer it
\* returns at once (write = "none"), or the document it goes on to write.
Answer(game, code) == [mem |-> game, code |-> code, write |-> "none"]
Write(game, how) == [mem |-> game, code |-> 0, write |-> how]

\* game.turn.toString() throws a TypeError on a game whose turn is not set
TurnUnset(game) == game.turn = NoUser

NotYourTurn(game, userId) == game.turn # userId

MoveUpdate(game, userId, m) ==
    LET pos == fen(game.currentPosition, m) IN
    [game EXCEPT
        !.currentPosition = pos,
        !.turn = OtherPlayer(game, userId),
        !.status = IF isGameOver(pos) THEN "completed" ELSE @,
        !.winner = IF isGameOver(pos) /\ isCheckmate(pos) THEN userId ELSE @]

makeMoveBody_NoCatch(game, userId, m) ==
    IF game = NoGame THEN Answer(game, 404)
    ELSE IF TurnUnset(game) THEN Answer(game, 500)
    ELSE IF NotYourTurn(game, userId) THEN Answer(game, 403)
    ELSE Write(MoveUpdate(game, userId, m), "save")

makeMoveBody(game, userId, m) ==
    IF game = NoGame THEN Answer(game, 404)
    ELSE IF TurnUnset(game) THEN Answer(game, 500)
    ELSE IF NotYourTurn(game, userId) THEN Answer(game, 403)
    ELSE IF MoveThrows(game.currentPosition, m) THEN Answer(game, 400)
    ELSE Write(MoveUpdate(game, userId, m), "save")

offerDrawBody_NoStatusCheck(game, userId) ==
    IF game = NoGame THEN Answer(game, 404)
    ELSE IF ~isParticipant(game, userId) THEN Answer(game, 403)
    ELSE Write([game EXCEPT !.drawOffer = userId], "save")

offerDrawBody(game, userId) ==
    IF game = NoGame THEN Answer(game, 404)
    ELSE IF ~isParticipant(game, userId) THEN Answer(game, 403)
    ELSE IF game.status # "active" THEN Answer(game, 400)
    ELSE Write([game EXCEPT !.drawOffer = userId], "save")

DrawResponseUpdate_KeepsDeclinedOffer(game, accept) ==
    [game EXCEPT
        !.status = IF accept THEN "drawn" ELSE @,
        !.result = IF accept THEN "draw" ELSE @,
        !.drawOffer = IF accept THEN NoUser ELSE @]

DrawResponseUpdate(game, accept) ==
    [game EXCEPT
        !.status = IF accept THEN "drawn" ELSE @,
        !.result = IF accept THEN "draw" ELSE @,
        !.drawOffer = NoUser]

respondToDrawOfferBody(game, userId, accept) ==
    IF game = NoGame THEN Answer(game, 404)
    ELSE IF game.drawOffer = NoUser THEN Answer(game, 400)
    ELSE IF game.drawOffer = userId THEN Answer(game, 403)
    ELSE Write(DrawResponseUpdate(game, accept), "save")

ResignUpdate_ResignerWins(game, userId) ==
    [game EXCEPT
        !.status = "resigned",
        !.result = "resignation",
        !.winner = userId]

ResignUpdate(game, userId) ==
    [game EXCEPT
        !.status = "resigned",
        !.result = "resignation",
        !.winner = OtherPlayer(game, userId)]

resignBody(game, userId) ==
    IF game = NoGame THEN Answer(game, 404)
    ELSE IF ~isParticipant(game, userId) THEN Answer(game, 403)
    ELSE IF game.status # "active" THEN Answer(game, 400)
    ELSE Write(ResignUpdate(game, userId), "save")

sendGameInviteBody(userId, opponentId) ==
    Write(NewGame(userId, opponentId), "insert")

\* !game.players.includes(userId) || game.invitedBy.toString() === userId.toString()
NotInvited(game, userId) ==
    ~isParticipant(game, userId) \/ game.invitedBy = userId

AcceptUpdate_TurnNotSet(game) == [game EXCEPT !.status = "active"]

AcceptUpdate_InviteeStarts(game) ==
    [game EXCEPT !.status = "active",
                 !.turn = OtherPlayer(game, game.invitedBy)]

AcceptUpdate(game) ==
    [game EXCEPT !.status = "active", !.turn = game.invitedBy]

acceptGameInviteBody(game, userId) ==
    IF game = NoGame THEN Answer(game, 404)
    ELSE IF NotInvited(game, userId) THEN Answer(game, 403)
    ELSE Write(AcceptUpdate(game), "save")

declineGameInviteBody_AnyoneDeclines(game, userId) ==
    IF game = NoGame THEN Answer(game, 404)
    ELSE Write(game, "delete")

declineGameInviteBody(game, userId) ==
    IF game = NoGame THEN Answer(game, 404)
    ELSE IF NotInvited(game, userId) THEN Answer(game, 403)
    ELSE Write(game, "delete")

getGameBody(game, userId) ==
    IF game = NoGame THEN Answer(game, 404)
    ELSE IF ~isParticipant(game, userId) THEN Answer(game, 403)
    ELSE Answer(game, 200)

\* status: { $in: ['active', 'pending'] }
ListedStatuses == {"active", "pending"}

\* Game.find({ players: userId, status: { $in: [...] } })
FindGames(game, userId) ==
    IF game # NoGame /\ isParticipant(game, userId)
       /\ game.status \in ListedStatuses
    THEN {TheGame} ELSE {}

getGamesBody(game, userId) == Answer(game, 200)

Body(op, game, userId, arg) ==
    CASE op = "makeMove" -> makeMoveBody(game, userId, arg)
      [] op = "getGame" -> getGameBody(game, userId)
      [] op = "getGames" -> getGamesBody(game, userId)
      [] op = "offerDraw" -> offerDrawBody(game, userId)
      [] op = "respondToDrawOffer" ->
            respondToDrawOfferBody(game, userId, arg = "yes")
      [] op = "resign" -> resignBody(game, userId)
      [] op = "sendGameInvite" -> sendGameInviteBody(userId, arg)
      [] op = "acceptGameInvite" -> acceptGameInviteBody(game, userId)
      [] op = "declineGameInvite" -> declineGameInviteBody(game, userId)

\* What follows a successful write.  sendGameInvite, acceptGameInvite and
\* declineGameInvite call getReceiverSocketId, which the controller module
\* does not import: the call throws a ReferenceError, the catch answers 500
\* and nothing is emitted.
AfterWrite(op) ==
    CASE op = "makeMove" -> [code |-> 200, emit |-> "moveMade"]
      [] op = "offerDraw" -> [code |-> 200, emit |-> "drawOffered"]
      [] op = "respondToDrawOffer" ->
            [code |-> 200, emit |-> "drawOfferResponse"]
      [] op = "resign" -> [code |-> 200, emit |-> "gameResigned"]
      [] op = "sendGameInvite" -> [code |-> 500, emit |-> "none"]
      [] op = "acceptGameInvite" -> [code |-> 500, emit |-> "none"]
      [] op = "declineGameInvite" -> [code |-> 500, emit |-> "none"]

\* game.save() of a loaded document sends the paths that were modified since
\* the load, and leaves the other paths of the stored document alone
SaveDocument(stored, loaded, mem) ==
    [f \in DOMAIN stored |-> IF mem[f] # loaded[f] THEN mem[f] ELSE stored[f]]

\* The loaded document as the modification of paths is judged against it.
\* offerDraw assigns a new { by, offeredAt: new Date() } object, which differs
\* from any offer that was loaded, so its drawOffer path is always modified.
Original(op, loaded) ==
    IF op = "offerDraw" THEN [loaded EXCEPT !.drawOffer = NoUser] ELSE loaded

\* ---------------------------------------------------------------- requests
\* A slot holds one HTTP request between its load and its awaited write.
\* pair, peer and foreign are history: pair is the slot of the request that
\* was between load and write on the same unchanged document when the later
\* of the two loaded, peer is that request once it has answered, and foreign
\* records a write to the game by any other request.
NoPeer == [op |-> "none", user |-> NoUser, arg |-> NoArg, code |-> 0]

IdleReq ==
    [pc |-> "idle", op |-> "none", user |-> NoUser, arg |-> NoArg,
     loaded |-> NoGame, pair |-> 0, peer |-> NoPeer, foreign |-> FALSE]

\* the last answer given: the controller, its status code and what it emitted
NoAnswer == [op |-> "none", code |-> 0, emit |-> "none"]

Answered(op, code, emit) == [op |-> op, code |-> code, emit |-> emit]

PairOf(r) ==
    LET c == {p \in ReqIds \ {r} :
                /\ reqs[p].pc = "saving"
                /\ Body(reqs[p].op, reqs[p].loaded, reqs[p].user,
                        reqs[p].arg).write = "save"
                /\ reqs[p].pair = 0
                /\ ~reqs[p].foreign}
    IN IF c = {} THEN 0 ELSE CHOOSE p \in c : \A q \in c : p <= q

\* the request arrives, the load resolves and the controller runs up to its
\* next await: it answers at once, or goes on to its write.  Slots are
\* interchangeable, and a request takes the lowest idle one.
Begin(r, op, userId, arg) ==
    LET b == Body(op, gameDoc, userId, arg)
        p == IF b.write = "save" THEN PairOf(r) ELSE 0
    IN /\ reqs[r].pc = "idle"
       /\ \A q \in ReqIds : q < r => reqs[q].pc # "idle"
       /\ issued < MaxRequests
       /\ issued' = issued + 1
       /\ IF b.write = "none"
          THEN /\ last' = Answered(op, b.code, "none")
               /\ listed' = IF op = "getGames"
                             THEN FindGames(gameDoc, userId) ELSE {}
               /\ UNCHANGED reqs
          ELSE /\ reqs' = [q \in ReqIds |->
                    IF q = r
                    THEN [pc |-> "saving", op |-> op, user |-> userId,
                          arg |-> arg, loaded |-> gameDoc, pair |-> p,
                          peer |-> NoPeer, foreign |-> FALSE]
                    ELSE IF q = p THEN [reqs[q] EXCEPT !.pair = r]
                    ELSE reqs[q]]
               /\ UNCHANGED <<last, listed>>
       /\ UNCHANGED <<gameDoc, created, lastMover, presenceVars>>

makeMove(r, userId, m) ==
    /\ m \in MoveInputs
    /\ Begin(r, "makeMove", userId, m)

offerDraw(r, userId) ==
    /\ userId \in Users
    /\ Begin(r, "offerDraw", userId, NoArg)

respondToDrawOffer(r, userId, accept) ==
    /\ accept \in {"yes", "no"}
    /\ Begin(r, "respondToDrawOffer", userId, accept)

resign(r, userId) ==
    /\ userId \in Users
    /\ Begin(r, "resign", userId, NoArg)

acceptGameInvite(r, userId) ==
    /\ userId \in Users
    /\ Begin(r, "acceptGameInvite", userId, NoArg)

declineGameInvite(r, userId) ==
    /\ userId \in Users
    /\ Begin(r, "declineGameInvite", userId, NoArg)

getGame(r, userId) ==
    /\ userId \in Users
    /\ Begin(r, "getGame", userId, NoArg)

getGames(r, userId) ==
    /\ userId \in Users
    /\ Begin(r, "getGames", userId, NoArg)

sendGameInvite(r, userId, opponentId) ==
    /\ ~created
    /\ \A p \in ReqIds : reqs[p].op # "sendGameInvite"
    /\ Begin(r, "sendGameInvite", userId, opponentId)

\* slot r answers with code: it is freed, and its pair learns the answer;
\* wrote says that r has written to the game
Finish(r, code, wrote) ==
    [p \in ReqIds |->
        IF p = r THEN IdleReq
        ELSE IF reqs[p].pc = "idle" THEN reqs[p]
        ELSE IF reqs[p].pair = r /\ reqs[p].peer = NoPeer
        THEN [reqs[p] EXCEPT !.peer = [op |-> reqs[r].op,
                                       user |-> reqs[r].user,
                                       arg |-> reqs[r].arg, code |-> code]]
        ELSE [reqs[p] EXCEPT !.foreign = @ \/ wrote]]

\* the awaited write resolves; the controller emits and answers
Save(r) ==
    LET q == reqs[r]
        b == Body(q.op, q.loaded, q.user, q.arg)
        after == AfterWrite(q.op)
    IN
    /\ q.pc = "saving"
    /\ CASE b.write = "insert" ->
              /\ gameDoc' = b.mem
              /\ created' = TRUE
              /\ reqs' = Finish(r, after.code, TRUE)
              /\ last' = Answered(q.op, after.code, after.emit)
              /\ UNCHANGED lastMover
         [] b.write = "delete" ->
              /\ gameDoc' = NoGame
              /\ reqs' = Finish(r, after.code, TRUE)
              /\ last' = Answered(q.op, after.code, after.emit)
              /\ UNCHANGED <<created, lastMover>>
         [] b.write = "save" /\ gameDoc = NoGame ->
              \* the document is gone: save() rejects (DocumentNotFoundError)
              /\ reqs' = Finish(r, 500, FALSE)
              /\ last' = Answered(q.op, 500, "none")
              /\ UNCHANGED <<gameDoc, created, lastMover>>
         [] b.write = "save" /\ gameDoc # NoGame ->
              /\ gameDoc' = SaveDocument(gameDoc, Original(q.op, q.loaded),
                                          b.mem)
              /\ reqs' = Finish(r, after.code, TRUE)
              /\ last' = Answered(q.op, after.code, after.emit)
              /\ lastMover' = IF q.op = "makeMove" THEN q.user ELSE lastMover
              /\ UNCHANGED created
    /\ listed' = {}
    /\ UNCHANGED <<issued, presenceVars>>

SaveFails_EmitsAnyway(r) ==
    /\ reqs[r].pc = "saving"
    /\ reqs' = Finish(r, 500, FALSE)
    /\ last' = Answered(reqs[r].op, 500, AfterWrite(reqs[r].op).emit)
    /\ listed' = {}
    /\ UNCHANGED <<gameDoc, created, lastMover, issued, presenceVars>>

\* the store is unavailable: the awaited write rejects, the catch answers
\* with sendInternalError and nothing is written or emitted
SaveFails(r) ==
    /\ reqs[r].pc = "saving"
    /\ reqs' = Finish(r, 500, FALSE)
    /\ last' = Answered(reqs[r].op, 500, "none")
    /\ listed' = {}
    /\ UNCHANGED <<gameDoc, created, lastMover, issued, presenceVars>>

\* ---------------------------------------------------------------- presence
NoConn == [state |-> "new", userId |-> NoUser]

\* Object.keys(userSocketMap)
OnlineKeys(map) == {u \in Users : map[u] # NoSock}

\* io.on("connection"): userId is the handshake's query.userId, which may
\* be missing
connection(s, userId) ==
    /\ sockets[s].state = "new"
    /\ sockets' = [sockets EXCEPT ![s] = [state |-> "connected",
                                          userId |-> userId]]
    /\ userSocketMap' = IF userId # NoUser
                        THEN [userSocketMap EXCEPT ![userId] = s]
                        ELSE userSocketMap
    /\ onlineUsers' = OnlineKeys(userSocketMap')
    /\ UNCHANGED <<relayed, gameVars>>

DeleteEntry_OwnSocketOnly(map, s, userId) ==
    [u \in Users |-> IF u = userId /\ map[u] # s THEN NoSock ELSE map[u]]

\* delete userSocketMap[userId]
DeleteEntry(map, s, userId) ==
    [u \in Users |-> IF u = userId THEN NoSock ELSE map[u]]

\* socket.on("disconnect")
disconnect(s) ==
    /\ sockets[s].state = "connected"
    /\ sockets' = [sockets EXCEPT ![s].state = "closed"]
    /\ userSocketMap' = DeleteEntry(userSocketMap, s, sockets[s].userId)
    /\ onlineUsers' = OnlineKeys(userSocketMap')
    /\ UNCHANGED <<relayed, gameVars>>

NoSignal == [event |-> "none", to |-> NoSock, senderId |-> NoUser]

\* socket.on("typing") and socket.on("stopTyping") of socket s: the signal
\* goes to the receiver's registered socket, or nowhere
Relay_ToFirstSocketOfReceiver(s, event, receiverId) ==
    LET c == {t \in SockIds : /\ sockets[t].state = "connected"
                              /\ sockets[t].userId = receiverId}
    IN /\ sockets[s].state = "connected"
       /\ relayed' = IF receiverId # NoUser /\ c # {}
                     THEN [event |-> event,
                           to |-> CHOOSE t \in c : \A q \in c : t <= q,
                           senderId |-> sockets[s].userId]
                     ELSE NoSignal
       /\ UNCHANGED <<sockets, userSocketMap, onlineUsers, gameVars>>

Relay(s, event, receiverId) ==
    /\ sockets[s].state = "connected"
    /\ relayed' = IF receiverId # NoUser /\ userSocketMap[receiverId] # NoSock
                  THEN [event |-> event, to |-> userSocketMap[receiverId],
                        senderId |-> sockets[s].userId]
                  ELSE NoSignal
    /\ UNCHANGED <<sockets, userSocketMap, onlineUsers, gameVars>>

typing(s, receiverId) ==
    /\ s \in SockIds
    /\ Relay(s, "typing", receiverId)

stopTyping(s, receiverId) ==
    /\ s \in SockIds
    /\ Relay(s, "stopTyping", receiverId)

\* ----------------------------------------------------------- specification
Init ==
    /\ gameDoc = NoGame
    /\ created = FALSE
    /\ reqs = [r \in ReqIds |-> IdleReq]
    /\ last = NoAnswer
    /\ lastMover = NoUser
    /\ issued = 0
    /\ listed = {}
    /\ relayed = NoSignal
    /\ sockets = [s \in SockIds |-> NoConn]
    /\ userSocketMap = [u \in Users |-> NoSock]
    /\ onlineUsers = {}

Next ==
    \/ \E r \in ReqIds, u \in Inviters, o \in Opponents : sendGameInvite(r, u, o)
    \/ \E r \in ReqIds, u \in Users : acceptGameInvite(r, u)
    \/ \E r \in ReqIds, u \in Users : declineGameInvite(r, u)
    \/ \E r \in ReqIds, u \in Users, m \in MoveInputs : makeMove(r, u, m)
    \/ \E r \in ReqIds, u \in Users : offerDraw(r, u)
    \/ \E r \in ReqIds, u \in Users, a \in {"yes", "no"} :
          respondToDrawOffer(r, u, a)
    \/ \E r \in ReqIds, u \in Users : resign(r, u)
    \/ \E r \in ReqIds : Save(r)
    \/ \E r \in ReqIds : SaveFails(r)

Spec == Init /\ [][Next]_vars

\* the controllers that write, together with the two that only read
NextReads ==
    \/ Next
    \/ \E r \in ReqIds, u \in Users : getGame(r, u)
    \/ \E r \in ReqIds, u \in Users : getGames(r, u)

SpecReads == Init /\ [][NextReads]_vars

NextPresence ==
    \/ \E s \in SockIds, u \in Users \cup {NoUser} : connection(s, u)
    \/ \E s \in SockIds : disconnect(s)
    \/ \E s \in SockIds, u \in Users \cup {NoUser} : typing(s, u)
    \/ \E s \in SockIds, u \in Users \cup {NoUser} : stopTyping(s, u)

SpecPresence == Init /\ [][NextPresence]_vars

\* ------------------------------------------------------------------ claims
Connected(u) ==
    \E s \in SockIds : sockets[s].state = "connected" /\ sockets[s].userId = u

\* C1: once the game's status is completed, drawn or resigned, no step
\* changes the currentPosition, turn or winner of the stored game.
C1_TerminalIsFinal ==
    [][(gameDoc.status \in Terminal /\ gameDoc' # NoGame) =>
         /\ gameDoc'.currentPosition = gameDoc.currentPosition
         /\ gameDoc'.turn = gameDoc.turn
         /\ gameDoc'.winner = gameDoc.winner]_vars

\* C2: the status never goes from completed, drawn or resigned to invited
\* or active, and never from active to invited.
C2_StatusMonotonic ==
    [][/\ gameDoc.status \in Terminal =>
            gameDoc'.status \notin {"invited", "active"}
       /\ gameDoc.status = "active" => gameDoc'.status # "invited"]_vars

\* C3: in every reachable state the game has a drawOffer only if its status
\* is active.
C3_DrawOfferOnlyWhileActive ==
    gameDoc.drawOffer # NoUser => gameDoc.status = "active"

\* One request run alone on doc: its answer and the document it leaves.  A
\* request that was answered 500 for an unavailable store leaves doc as it is.
SerialStep(doc, q) ==
    LET b == Body(q.op, doc, q.user, q.arg) IN
    IF b.write = "none" THEN [doc |-> doc, code |-> b.code]
    ELSE IF q.code = 500 THEN [doc |-> doc, code |-> 500]
    ELSE [doc |-> b.mem, code |-> AfterWrite(q.op).code]

InOrder(base, q1, q2, final) ==
    LET s1 == SerialStep(base, q1)
        s2 == SerialStep(s1.doc, q2)
    IN s2.doc = final /\ s1.code = q1.code /\ s2.code = q2.code

Serializable(base, q1, q2, final) ==
    InOrder(base, q1, q2, final) \/ InOrder(base, q2, q1, final)

Serialized == {"makeMove", "resign", "respondToDrawOffer"}

\* C4: when the second of two concurrent move / resign / draw-response
\* requests on the game answers, the stored game and the two answers are
\* those of running the two requests one after the other in some order.
C4_MutationsSerialize ==
    [][\A r \in ReqIds :
         (/\ reqs[r].pc = "saving"
          /\ reqs'[r].pc = "idle"
          /\ reqs[r].peer # NoPeer
          /\ ~reqs[r].foreign
          /\ reqs[r].op \in Serialized
          /\ reqs[r].peer.op \in Serialized)
         => Serializable(reqs[r].loaded,
                         [op |-> reqs[r].op, user |-> reqs[r].user,
                          arg |-> reqs[r].arg, code |-> last'.code],
                         reqs[r].peer, gameDoc')]_vars

\* C5: the online-user list broadcast on each connect and disconnect is
\* exactly the set of users that have at least one live connection.
C5_OnlineListExact == onlineUsers = {u \in Users : Connected(u)}

\* C6: every user -> channel entry of the presence map refers to a channel
\* of that user that is connected.
C6_NoStaleChannel ==
    \A u \in Users :
        userSocketMap[u] # NoSock =>
            /\ sockets[userSocketMap[u]].state = "connected"
            /\ sockets[userSocketMap[u]].userId = u

\* a user who has an entry after one of their connections has closed
C6_Witness ==
    \E u \in Users, s \in SockIds :
        /\ sockets[s].state = "closed"
        /\ sockets[s].userId = u
        /\ userSocketMap[u] # NoSock

\* C7: in every reachable state an active game's turn is one of its two
\* participants.
C7_TurnIsParticipant ==
    gameDoc.status = "active" => isParticipant(gameDoc, gameDoc.turn)

\* an active game in which a move has been made
C7_Witness ==
    /\ gameDoc.status = "active"
    /\ gameDoc.currentPosition # StartPosition
    /\ gameDoc.turn = "u2"

\* C8: makeMove on an existing game by a user who is not its turn owner
\* answers 403, leaves the game unchanged and emits nothing.
C8_NonTurnOwnerForbidden ==
    [][\A r \in ReqIds, u \in Users, m \in MoveInputs :
         (gameDoc # NoGame /\ gameDoc.turn # u /\ makeMove(r, u, m))
         => /\ last'.code = 403
            /\ last'.emit = "none"
            /\ gameDoc' = gameDoc]_vars

\* C9: makeMove by the turn owner with a move the rules engine rejects
\* answers 400 at once, leaves the stored game unchanged and emits nothing.
C9_IllegalMoveRejected ==
    [][\A r \in ReqIds, u \in Users, m \in MoveInputs :
         (/\ gameDoc # NoGame
          /\ gameDoc.turn = u
          /\ MoveThrows(gameDoc.currentPosition, m)
          /\ makeMove(r, u, m))
         => /\ last' = Answered("makeMove", 400, "none")
            /\ gameDoc' = gameDoc
            /\ reqs' = reqs]_vars

\* an illegal move of the turn owner has been answered on an active game
C9_Witness ==
    /\ last = Answered("makeMove", 400, "none")
    /\ gameDoc.status = "active"
    /\ gameDoc.turn \in Users

\* C10: a successful makeMove by u leaves turn = the other participant and
\* currentPosition = the rules engine's position, and is never the second of
\* two consecutive successful moves by u.
C10_MoveFlipsTurn ==
    [][\A r \in ReqIds :
         (/\ reqs[r].pc = "saving"
          /\ reqs[r].op = "makeMove"
          /\ reqs'[r].pc = "idle"
          /\ last'.code = 200)
         => /\ gameDoc'.turn = OtherPlayer(gameDoc', reqs[r].user)
            /\ gameDoc'.currentPosition =
                   fen(reqs[r].loaded.currentPosition, reqs[r].arg)
            /\ lastMover # reqs[r].user]_vars

\* slot r answers in this step, after its awaited write
Answers(r) == reqs[r].pc = "saving" /\ reqs'[r].pc = "idle"

\* C11: after a successful makeMove the stored game has status completed and
\* winner = the mover if the rules engine reports checkmate, status completed
\* and no winner if it reports another game-over, and status active otherwise.
C11_MoveOutcome ==
    [][\A r \in ReqIds :
         (reqs[r].op = "makeMove" /\ Answers(r) /\ last'.code = 200)
         => LET pos == fen(reqs[r].loaded.currentPosition, reqs[r].arg) IN
            /\ (isGameOver(pos) /\ isCheckmate(pos)) =>
                   /\ gameDoc'.status = "completed"
                   /\ gameDoc'.winner = reqs[r].user
            /\ (isGameOver(pos) /\ ~isCheckmate(pos)) =>
                   /\ gameDoc'.status = "completed"
                   /\ gameDoc'.winner = NoUser
            /\ ~isGameOver(pos) => gameDoc'.status = "active"]_vars

\* the request of this step is answered at once with code: nothing is
\* written, nothing is emitted and no write is left pending
Refused(op, code) ==
    /\ last' = Answered(op, code, "none")
    /\ gameDoc' = gameDoc
    /\ reqs' = reqs

\* the stored document is the one slot r loaded: no request has written to
\* the game between r's load and r's write
Undisturbed(r) == gameDoc = reqs[r].loaded

\* C12: respondToDrawOffer answers 400 when the game has no drawOffer and 403
\* when the responder made the offer, the game unchanged; otherwise its save
\* clears drawOffer, sets status = drawn and result = draw if accept, and
\* leaves the status as it is if not.
C12_RespondToDraw ==
    [][/\ \A r \in ReqIds, u \in Users, a \in {"yes", "no"} :
            /\ (gameDoc # NoGame /\ gameDoc.drawOffer = NoUser
                /\ respondToDrawOffer(r, u, a))
               => Refused("respondToDrawOffer", 400)
            /\ (gameDoc # NoGame /\ gameDoc.drawOffer = u
                /\ respondToDrawOffer(r, u, a))
               => Refused("respondToDrawOffer", 403)
       /\ \A r \in ReqIds :
            (reqs[r].op = "respondToDrawOffer" /\ Answers(r)
             /\ last'.code = 200)
            => /\ gameDoc'.drawOffer = NoUser
               /\ reqs[r].arg = "no" => gameDoc'.status = gameDoc.status
               /\ (reqs[r].arg = "yes" /\ Undisturbed(r)) =>
                      gameDoc' = [gameDoc EXCEPT !.drawOffer = NoUser,
                                                 !.status = "drawn",
                                                 !.result = "draw"]
               /\ (reqs[r].arg = "no" /\ Undisturbed(r)) =>
                      gameDoc' = [gameDoc EXCEPT !.drawOffer = NoUser]]_vars

\* a draw has been agreed while it was the accepting user's opponent's turn
C12_Witness ==
    /\ last = Answered("respondToDrawOffer", 200, "drawOfferResponse")
    /\ gameDoc.status = "drawn"
    /\ gameDoc.result = "draw"
    /\ gameDoc.drawOffer = NoUser
    /\ gameDoc.turn \in Users

\* C13: resign answers 403 to a non-participant and 400 on a game that is
\* not active, the game unchanged; the resignation of a participant of an
\* active game stores status = resigned, result = resignation and winner =
\* the other participant, whoever's turn it is.
C13_Resign ==
    [][/\ \A r \in ReqIds, u \in Users :
            /\ (gameDoc # NoGame /\ ~isParticipant(gameDoc, u)
                /\ resign(r, u))
               => Refused("resign", 403)
            /\ (gameDoc # NoGame /\ isParticipant(gameDoc, u)
                /\ gameDoc.status # "active" /\ resign(r, u))
               => Refused("resign", 400)
       /\ \A r \in ReqIds :
            (reqs[r].op = "resign" /\ Answers(r) /\ last'.code = 200)
            => /\ gameDoc'.status = "resigned"
               /\ Undisturbed(r) =>
                      gameDoc' = [gameDoc EXCEPT
                          !.status = "resigned",
                          !.result = "resignation",
                          !.winner = OtherPlayer(gameDoc, reqs[r].user)]]_vars

\* a participant has resigned while it was the other participant's turn
C13_Witness ==
    /\ last = Answered("resign", 200, "gameResigned")
    /\ gameDoc.status = "resigned"
    /\ gameDoc.result = "resignation"
    /\ gameDoc.winner \in Users
    /\ gameDoc.turn = gameDoc.winner

\* C14: acceptGameInvite answers 403 with the game unchanged unless the caller
\* is a participant other than invitedBy; the invitee's acceptance of an
\* invited game stores status = active and turn = invitedBy, and the first
\* successful move of a game is the inviter's.
C14_AcceptInvite ==
    [][/\ \A r \in ReqIds, u \in Users :
            (gameDoc # NoGame
             /\ ~(isParticipant(gameDoc, u) /\ u # gameDoc.invitedBy)
             /\ acceptGameInvite(r, u))
            => Refused("acceptGameInvite", 403)
       /\ \A r \in ReqIds :
            /\ (reqs[r].op = "acceptGameInvite"
                /\ reqs[r].loaded.status = "invited"
                /\ Undisturbed(r) /\ Save(r))
               => gameDoc' = [gameDoc EXCEPT !.status = "active",
                                             !.turn = gameDoc.invitedBy]
            /\ (reqs[r].op = "makeMove" /\ Answers(r) /\ last'.code = 200
                /\ lastMover = NoUser)
               => reqs[r].user = gameDoc.invitedBy]_vars

\* the invitee has accepted and no move has been made yet
C14_Witness ==
    /\ last.op = "acceptGameInvite"
    /\ gameDoc.status = "active"
    /\ gameDoc.turn = gameDoc.invitedBy
    /\ gameDoc.turn # NoUser
    /\ lastMover = NoUser

\* a request arrives in this step and runs up to its first await
Arrives == issued' = issued + 1

\* the record of the game has been deleted
Deleted == created /\ gameDoc = NoGame

\* C15: the invitee's declineGameInvite deletes the record of the game for
\* good, and every request on the game's id that arrives afterwards (getGame
\* or any other controller) is answered 404; declineGameInvite by the inviter
\* or by a non-participant is answered 403 and leaves the record in place.
C15_DeclineDeletes ==
    [][/\ \A r \in ReqIds :
            (reqs[r].op = "declineGameInvite" /\ Save(r)) => Deleted'
       /\ Deleted => Deleted'
       /\ (Deleted /\ Arrives)
          => /\ reqs' = reqs
             /\ \/ last'.op = "getGames" /\ listed' = {}
                \/ last'.code = 404 /\ last'.emit = "none"
       /\ \A r \in ReqIds, u \in Users :
            (gameDoc # NoGame /\ NotInvited(gameDoc, u)
             /\ declineGameInvite(r, u))
            => (Refused("declineGameInvite", 403) /\ gameDoc' # NoGame)]_vars

\* the game was declined and a later getGame on its id was answered 404
C15_Witness ==
    /\ Deleted
    /\ last = Answered("getGame", 404, "none")
    /\ \A r \in ReqIds : reqs[r].pc = "idle"

\* C16: getGames answers with exactly the games the requesting user plays in
\* whose status is invited or active.
C16_ListGames ==
    [][\A r \in ReqIds, u \in Users :
            getGames(r, u)
            => listed' = IF gameDoc # NoGame /\ isParticipant(gameDoc, u)
                            /\ gameDoc.status \in {"invited", "active"}
                         THEN {TheGame} ELSE {}]_vars

\* the controllers that emit a notification after their write
Notifying == {"makeMove", "offerDraw", "respondToDrawOffer", "resign"}

\* C17: a notification is emitted only by a request whose write has been
\* stored; a request refused by a check, and a request whose write is
\* rejected, emit nothing and leave the stored game as it was.
C17_NotifyAfterPersist ==
    [][/\ \A r \in ReqIds :
            /\ (Answers(r) /\ last'.emit # "none")
               => /\ gameDoc # NoGame
                  /\ last'.emit = AfterWrite(reqs[r].op).emit
                  /\ gameDoc' = SaveDocument(gameDoc,
                                    Original(reqs[r].op, reqs[r].loaded),
                                    Body(reqs[r].op, reqs[r].loaded,
                                         reqs[r].user, reqs[r].arg).mem)
            /\ (Answers(r) /\ reqs[r].op \in Notifying /\ last'.code # 200)
               => (last'.emit = "none" /\ gameDoc' = gameDoc)
       /\ (Arrives /\ reqs' = reqs)
          => (last'.emit = "none" /\ gameDoc' = gameDoc)]_vars

\* the write of a move on an untouched active game was rejected: the move is
\* answered 500, nothing was emitted and the position is still the start
C17_Witness ==
    /\ last = Answered("makeMove", 500, "none")
    /\ gameDoc # NoGame
    /\ gameDoc.status = "active"
    /\ gameDoc.turn # NoUser
    /\ gameDoc.currentPosition = StartPosition
    /\ \A r \in ReqIds : reqs[r].pc = "idle"

\* C18: a sendGameInvite that has created its game answers 201 and emits
\* gameInvite, the game created being the invited game of inviter and invitee.
C18_InviteSucceeds ==
    [][\A r \in ReqIds :
            (reqs[r].op = "sendGameInvite" /\ Answers(r) /\ created')
            => /\ gameDoc' = NewGame(reqs[r].user, reqs[r].arg)
               /\ last' = Answered("sendGameInvite", 201, "gameInvite")]_vars

\* C19: offerDraw answers 403 to a non-participant and 400 on a game that is
\* not active, the game unchanged; otherwise its save sets drawOffer to the
\* caller and changes no other field of the stored game.
C19_OfferDrawFrame ==
    [][/\ \A r \in ReqIds, u \in Users :
            /\ (gameDoc # NoGame /\ ~isParticipant(gameDoc, u)
                /\ offerDraw(r, u))
               => Refused("offerDraw", 403)
            /\ (gameDoc # NoGame /\ isParticipant(gameDoc, u)
                /\ gameDoc.status # "active" /\ offerDraw(r, u))
               => Refused("offerDraw", 400)
       /\ \A r \in ReqIds :
            (reqs[r].op = "offerDraw" /\ Answers(r) /\ last'.code = 200)
            => gameDoc' = [gameDoc EXCEPT !.drawOffer = reqs[r].user]]_vars

\* a participant's offer has replaced the pending offer of the other one
C19_Witness ==
    /\ last = Answered("offerDraw", 200, "drawOffered")
    /\ gameDoc.status = "active"
    /\ gameDoc.drawOffer \in Users
    /\ \E r \in ReqIds :
         /\ reqs[r].pc = "saving"
         /\ reqs[r].op = "respondToDrawOffer"
         /\ reqs[r].loaded.drawOffer \in Users \ {gameDoc.drawOffer}

\* C20: a typing or stopTyping signal is emitted once, to the socket
\* registered for receiverId in userSocketMap, or not at all when receiverId
\* has no entry; it changes neither userSocketMap nor the sockets nor the game.
C20_TypingRelay ==
    [][\A s \in SockIds, u \in Users \cup {NoUser} :
            (sockets[s].state = "connected"
             /\ (typing(s, u) \/ stopTyping(s, u)))
            => /\ IF u # NoUser /\ userSocketMap[u] # NoSock
                  THEN /\ relayed'.to = userSocketMap[u]
                       /\ relayed'.senderId = sockets[s].userId
                       /\ relayed'.event \in {"typing", "stopTyping"}
                  ELSE relayed' = NoSignal
               /\ UNCHANGED <<sockets, userSocketMap, onlineUsers, gameDoc,
                              created>>]_vars

\* a typing signal was delivered to the receiver's registered socket while
\* the receiver has an older socket that is still connected
C20_Witness ==
    /\ relayed.event = "typing"
    /\ relayed.to # NoSock
    /\ \E u \in Users :
         /\ userSocketMap[u] = relayed.to
         /\ \E t \in SockIds \ {relayed.to} :
              sockets[t].state = "connected" /\ sockets[t].userId = u

\* the controllers that change or delete an existing game
Mutating ==
    {"makeMove", "offerDraw", "respondToDrawOffer", "resign",
     "acceptGameInvite", "declineGameInvite"}

\* C21: a request that changes or deletes the stored game (makeMove,
\* offerDraw, respondToDrawOffer, resign, acceptGameInvite,
\* declineGameInvite) is made by one of the game's two players.
C21_OnlyParticipantsMutate ==
    [][\A r \in ReqIds :
            (reqs[r].op \in Mutating /\ Answers(r) /\ gameDoc' # gameDoc)
            => isParticipant(gameDoc, reqs[r].user)]_vars

\* C22: a request answered with an error code (4xx or 5xx) leaves the stored
\* game as it was before the request; a step that creates, changes or deletes
\* the game is answered with a success code.
C22_ErrorsLeaveStore ==
    [][/\ \A r \in ReqIds :
            (Answers(r) /\ last'.code >= 400) => gameDoc' = gameDoc
       /\ (Arrives /\ reqs' = reqs) => gameDoc' = gameDoc
       /\ gameDoc' # gameDoc => last'.code \in {200, 201}]_vars

====
